---- MODULE Spec2Model ----
(***************************************************************************)
(* A model of KGrip: the JobQueue of queue.js and the measurement          *)
(* controller of gauge-segmented.js.                                       *)
(*                                                                         *)
(* JavaScript runs every callback to completion, so one action is one      *)
(* callback: a call of the public API, a timer callback, an I/O completion *)
(* or the continuation of an await.  Continuations of an await (micro-     *)
(* tasks) run before any timer callback; the guards of the timer actions   *)
(* say so.                                                                 *)
(***************************************************************************)
EXTENDS Integers, Sequences, FiniteSets, TLC

(***************************************************************************)
(* Bounds of the model.                                                    *)
(***************************************************************************)
MaxJobs == 2
MaxAttempts == 3
MaxConcurrency == 2

\* options.retryDelay, by default
RetryDelay == 1000

Priorities == {1, 5}
JobTypes == {"email", "unknown"}

\* status messages emitted by the controller in a behaviour of its outbound
\* queue
MaxMessages == 3

JobIds == 1..(IF MaxJobs > MaxMessages THEN MaxJobs ELSE MaxMessages)

\* inbound commands, injected I/O errors, accepted samples per window and
\* largest sample magnitude of a behaviour of the controller
MaxCmds == 2
MaxFaults == 1
MaxSamples == 2
MaxValue == 3
\* timers of one kind (settle, stop, close), and dropped handles, pending at
\* a time
MaxPending == 1

\* config.baseline, config.trigger, config.ceilWeight (the configuration
\* file is not part of the sources: these are the values of the model)
BaselineThreshold == 1
Trigger == 1
CeilWeight == 3

Values == 0..MaxValue

VARIABLES
  \* ---- JobQueue (queue.js) ----
  concurrency,    \* this.concurrency
  handlers,       \* this.handlers (the job types with a registered handler)
  jobs,           \* this.jobs: the queue list, a sequence of job ids
  job,            \* the job objects, by id (status "none": not created yet)
  running,        \* this.running
  paused,         \* this.paused
  stats,          \* this.stats
  continuations,  \* _process calls suspended at their await whose
                  \* _executeJob has returned: their finally blocks are due
  wakes,          \* the pending retry timers of _executeJob, by the job
                  \* whose failure set them: their delays, oldest first
  \* ---- history of the queue, read by the properties only ----
  events,         \* per job, the number of job:retry / job:failed /
                  \* job:completed events emitted for it
  inserted,       \* per job, the rank of its _insertJob call (0: none yet)
  b2b             \* two adds back to back: first is the job added by the
                  \* previous step to an idle, unpaused queue, second the
                  \* job of higher priority added right after it

VARIABLES
  \* ---- the controller (gauge-segmented.js) ----
  port,              \* port: "undef", or a handle that is "opening" or "open"
  orphanPorts,       \* handles dropped (port = undefined) while opening
  parser,            \* a ByteLengthParser is piped to the current handle
  sampling,          \* the instrument streams frames (SamplingOn was written)
  socketPath,        \* socketPath is set
  coef,
  first,
  baseline,
  weightMax,
  weightArray,
  startTimeoutMeasurement,
  stopMeasurement,
  algorithmTimeout,  \* the handle held: [state, kind of its callback]
  leakedDeadlines,   \* pending deadline timers whose handle was overwritten
  searchUsbInterval, \* the handle held: "undef", "active" or "cleared"
  leakedPolls,       \* active intervals whose handle was overwritten
  timeoutForStartSampling,          \* the confirm-timer: [state, value]
  timeoutForCancelSamplingTimeout,  \* the cancel-timer
  measurementTimeout,               \* the capture-window timer
  leakedSessions,    \* pending window timers whose handle was overwritten
  stopTimers,        \* pending 500 ms timers of stopMeasure
  closeTimers,       \* pending 200 ms close timers
  settleTimers,      \* pending config.samplingDelay timers of 'open'
  writeErrors,       \* failed writes whose callback has not run yet
  cmds,              \* inbound commands received so far
  faults,            \* I/O errors injected so far
  \* ---- history of the controller, read by the properties only ----
  stale,             \* the kinds of timer that were pending when teardown
                     \* last ran, no measureStart / measureSamplingOn since
  out                \* what the last step did: the callback that ran, the
                     \* status messages it emitted, the commands it wrote

qvars == <<concurrency, handlers, jobs, job, running, paused, stats,
           continuations, wakes, events, inserted, b2b>>

kvars == <<port, orphanPorts, parser, sampling, socketPath, coef, first,
           baseline, weightMax, weightArray, startTimeoutMeasurement,
           stopMeasurement, algorithmTimeout, leakedDeadlines,
           searchUsbInterval, leakedPolls, timeoutForStartSampling,
           timeoutForCancelSamplingTimeout, measurementTimeout,
           leakedSessions, stopTimers, closeTimers, settleTimers,
           writeErrors, cmds, faults, stale, out>>

\* ---- the outbound channel (the dealer socket of gauge-segmented.js) ----
VARIABLES
  callback,          \* a display callback is registered
  data,              \* per job of the controller's queue, its message
  sends,             \* per job of the controller's queue, its dealer.send:
                     \* "none", "inflight", "sent" or "failed"
  display,           \* the payloads handed to the display callback, in order
  wire,              \* the messages handed to dealer.send, in order
  gateway            \* listenZmq: its loop is running (listening), the
                     \* messages it logged as invalid, and the commands that
                     \* arrived after the loop had ended

ovars == <<callback, data, sends, display, wire, gateway>>

vars == <<qvars, kvars, ovars>>

(***************************************************************************)
(* Helpers.                                                                *)
(***************************************************************************)
Min(S) == CHOOSE x \in S : \A y \in S : x <= y

RECURSIVE Pow2(_)
Pow2(n) == IF n <= 0 THEN 1 ELSE 2 * Pow2(n - 1)

NoPair == [first |-> 0, second |-> 0]

NoJob == [status |-> "none", type |-> "email", priority |-> 0,
          attempts |-> 0, maxAttempts |-> 1]

\* The queue's state as one value: the methods below map one to the next.
QState == [jobs |-> jobs, job |-> job, running |-> running,
           paused |-> paused, stats |-> stats,
           continuations |-> continuations, wakes |-> wakes,
           events |-> events, inserted |-> inserted]

\* the queue's state becomes s, which is computed once
SetQState(s) ==
  \E t \in {s} :
    /\ jobs' = t.jobs
    /\ job' = t.job
    /\ running' = t.running
    /\ paused' = t.paused
    /\ stats' = t.stats
    /\ continuations' = t.continuations
    /\ wakes' = t.wakes
    /\ events' = t.events
    /\ inserted' = t.inserted

(***************************************************************************)
(* JobQueue._insertJob: before the first queued job of strictly lower      *)
(* priority, else at the end.                                              *)
(***************************************************************************)
InsertBeforeOrEqual(jb, queued) == jb.priority >= queued.priority

InsertBefore(jb, queued) == jb.priority > queued.priority

InsertJob(s, id) ==
  LET q == s.jobs
      lower == {i \in 1..Len(q) : InsertBefore(s.job[id], s.job[q[i]])}
      n == Cardinality({j \in JobIds : s.inserted[j] # 0})
      newq == IF lower = {}
              THEN Append(q, id)
              ELSE SubSeq(q, 1, Min(lower) - 1) \o <<id>>
                     \o SubSeq(q, Min(lower), Len(q))
  IN [s EXCEPT !.jobs = newq, !.inserted[id] = n + 1]

(***************************************************************************)
(* JobQueue._removeJob.                                                    *)
(***************************************************************************)
RemoveJob(s, id) ==
  LET q == s.jobs
      idx == {i \in 1..Len(q) : q[i] = id}
  IN IF idx = {} THEN s
     ELSE [s EXCEPT !.jobs = SubSeq(q, 1, Min(idx) - 1)
                               \o SubSeq(q, Min(idx) + 1, Len(q))]

(***************************************************************************)
(* JobQueue._process up to its await, with the part of _executeJob that    *)
(* runs before _executeJob's own await.                                    *)
(***************************************************************************)
CanDispatchUnlimited(s) == ~s.paused

CanDispatch(s) == ~s.paused /\ s.running < concurrency

\* this.jobs.find(j => j.status === 'pending'); 0 when there is none
FirstPending(s) ==
  LET idx == {i \in 1..Len(s.jobs) : s.job[s.jobs[i]].status = "pending"}
  IN IF idx = {} THEN 0 ELSE s.jobs[Min(idx)]

\* _executeJob with no registered handler, were the job put back for a retry
ExecuteNoHandlerRetried(s, id) ==
  [s EXCEPT !.job[id].status = "pending",
            !.stats.retried = @ + 1,
            !.events[id].retry = @ + 1,
            !.continuations = @ + 1]

\* _executeJob with no registered handler: the job fails at once and
\* _executeJob returns, so the caller's finally block is due.
ExecuteNoHandler(s, id) ==
  LET s1 == [s EXCEPT !.job[id].status = "failed",
                      !.stats.failed = @ + 1,
                      !.events[id].failed = @ + 1]
      s2 == RemoveJob(s1, id)
  IN [s2 EXCEPT !.continuations = @ + 1]

\* _executeJob up to its await: the attempt is counted, the timeout timer
\* is set and the handler is invoked.
ExecuteStart(s, id) ==
  [s EXCEPT !.job[id].attempts = @ + 1]

Process(s) ==
  IF ~CanDispatch(s) THEN s
  ELSE LET id == FirstPending(s)
       IN IF id = 0 THEN s
          ELSE LET s1 == [s EXCEPT !.job[id].status = "processing",
                                   !.running = @ + 1]
               IN IF s.job[id].type \in handlers
                  THEN ExecuteStart(s1, id)
                  ELSE ExecuteNoHandler(s1, id)

(***************************************************************************)
(* _executeJob after its await.                                            *)
(***************************************************************************)
ShouldRetryOnceMore(jb) == jb.attempts <= jb.maxAttempts

ShouldRetry(jb) == jb.attempts < jb.maxAttempts

BackoffDelay(jb) == RetryDelay * Pow2(jb.attempts - 1)

ExecuteSuccess(s, id) ==
  LET s1 == [s EXCEPT !.job[id].status = "completed",
                      !.stats.completed = @ + 1,
                      !.events[id].completed = @ + 1]
      s2 == RemoveJob(s1, id)
  IN [s2 EXCEPT !.continuations = @ + 1]

ExecuteFailure(s, id) ==
  IF ShouldRetry(s.job[id])
  THEN LET d == BackoffDelay(s.job[id])
       IN [s EXCEPT !.job[id].status = "pending",
                    !.stats.retried = @ + 1,
                    !.events[id].retry = @ + 1,
                    !.wakes[id] = Append(@, d),
                    !.continuations = @ + 1]
  ELSE LET s1 == [s EXCEPT !.job[id].status = "failed",
                           !.stats.failed = @ + 1,
                           !.events[id].failed = @ + 1]
           s2 == RemoveJob(s1, id)
       IN [s2 EXCEPT !.continuations = @ + 1]

\* the finally block of _process, were the next job not looked for
ProcessFinallyOnly(s) ==
  [s EXCEPT !.running = @ - 1, !.continuations = @ - 1]

\* The finally block of _process.
ProcessFinally(s) ==
  Process([s EXCEPT !.running = @ - 1, !.continuations = @ - 1])

(***************************************************************************)
(* The initial state: new JobQueue(options), then process(type, handler)   *)
(* for the registered job type.                                            *)
(***************************************************************************)
InitQ ==
  /\ concurrency \in 1..MaxConcurrency
  /\ handlers = {"email"}
  /\ jobs = <<>>
  /\ job = [j \in JobIds |-> NoJob]
  /\ running = 0
  /\ paused = FALSE
  /\ stats = [completed |-> 0, failed |-> 0, retried |-> 0]
  /\ continuations = 0
  /\ wakes = [j \in JobIds |-> <<>>]
  /\ events = [j \in JobIds |-> [retry |-> 0, failed |-> 0, completed |-> 0]]
  /\ inserted = [j \in JobIds |-> 0]
  /\ b2b = NoPair

(***************************************************************************)
(* The actions of the queue.                                               *)
(***************************************************************************)
Created == {j \in JobIds : job[j].status # "none"}

Idle == running = 0 /\ continuations = 0 /\ jobs = <<>> /\ ~paused

\* b2b after a step that is no add: a first job still waiting for its
\* second is forgotten
Forget == IF b2b.second = 0 THEN NoPair ELSE b2b

\* b2b after an add
Pairing(id, type, priority, delayed) ==
  IF ~delayed /\ type \in handlers
  THEN IF b2b = NoPair /\ Idle
       THEN [first |-> id, second |-> 0]
       ELSE IF b2b.first # 0 /\ b2b.second = 0
               /\ priority > job[b2b.first].priority
       THEN [b2b EXCEPT !.second = id]
       ELSE Forget
  ELSE Forget

\* add without its call of _process
AddDeferred(type, priority, maxAttempts, delayed) ==
  /\ Cardinality(Created) < MaxJobs
  /\ LET id == Cardinality(Created) + 1
         jb == [status |-> IF delayed THEN "delayed" ELSE "pending",
                type |-> type, priority |-> priority,
                attempts |-> 0, maxAttempts |-> maxAttempts]
         s0 == [QState EXCEPT !.job[id] = jb]
     IN /\ SetQState(IF delayed THEN s0 ELSE InsertJob(s0, id))
        /\ b2b' = Pairing(id, type, priority, delayed)
  /\ UNCHANGED <<concurrency, handlers, kvars, ovars>>

\* add(jobType, data, options)
Add(type, priority, maxAttempts, delayed) ==
  /\ Cardinality(Created) < MaxJobs
  /\ LET id == Cardinality(Created) + 1
         jb == [status |-> IF delayed THEN "delayed" ELSE "pending",
                type |-> type, priority |-> priority,
                attempts |-> 0, maxAttempts |-> maxAttempts]
         s0 == [QState EXCEPT !.job[id] = jb]
     IN /\ SetQState(IF delayed THEN s0 ELSE Process(InsertJob(s0, id)))
        /\ b2b' = Pairing(id, type, priority, delayed)
  /\ UNCHANGED <<concurrency, handlers, kvars, ovars>>

\* the timer callback of a delayed add
DelayExpire(id) ==
  /\ job[id].status = "delayed"
  /\ continuations = 0
  /\ SetQState(Process(InsertJob([QState EXCEPT !.job[id].status = "pending"],
                                 id)))
  /\ b2b' = Forget
  /\ UNCHANGED <<concurrency, handlers, kvars, ovars>>

\* the handler's promise fulfils before the timeout: _executeJob resumes
HandlerResolve(id) ==
  /\ job[id].status = "processing"
  /\ SetQState(ExecuteSuccess(QState, id))
  /\ b2b' = Forget
  /\ UNCHANGED <<concurrency, handlers, kvars, ovars>>

\* the handler throws or its promise rejects before the timeout
HandlerReject(id) ==
  /\ job[id].status = "processing"
  /\ SetQState(ExecuteFailure(QState, id))
  /\ b2b' = Forget
  /\ UNCHANGED <<concurrency, handlers, kvars, ovars>>

\* the timeout timer of an attempt, were its rejection acted upon after the
\* handler has won the race
JobTimeoutAfterRace(id) ==
  /\ job[id].status \in {"processing", "completed"}
  /\ continuations = 0
  /\ SetQState(ExecuteFailure(QState, id))
  /\ b2b' = Forget
  /\ UNCHANGED <<concurrency, handlers, kvars, ovars>>

\* the timeout timer of the attempt in progress rejects the race
JobTimeout(id) ==
  /\ job[id].status = "processing"
  /\ continuations = 0
  /\ SetQState(ExecuteFailure(QState, id))
  /\ b2b' = Forget
  /\ UNCHANGED <<concurrency, handlers, kvars, ovars>>

\* a suspended _process resumes in its finally block
Finally ==
  /\ continuations > 0
  /\ SetQState(ProcessFinally(QState))
  /\ b2b' = Forget
  /\ UNCHANGED <<concurrency, handlers, kvars, ovars>>

\* a retry timer of _executeJob fires: setTimeout(() => this._process(), delay)
RetryWake(id) ==
  /\ wakes[id] # <<>>
  /\ continuations = 0
  /\ SetQState(Process([QState EXCEPT !.wakes[id] = Tail(@)]))
  /\ b2b' = Forget
  /\ UNCHANGED <<concurrency, handlers, kvars, ovars>>

\* pause()
Pause ==
  /\ ~paused
  /\ paused' = TRUE
  /\ b2b' = Forget
  /\ UNCHANGED <<concurrency, handlers, jobs, job, running, stats,
                 continuations, wakes, events, inserted, kvars, ovars>>

\* resume()
Resume ==
  /\ paused
  /\ SetQState(Process([QState EXCEPT !.paused = FALSE]))
  /\ b2b' = Forget
  /\ UNCHANGED <<concurrency, handlers, kvars, ovars>>

\* clear()
Clear ==
  /\ jobs # <<>>
  /\ jobs' = <<>>
  /\ b2b' = Forget
  /\ UNCHANGED <<concurrency, handlers, job, running, paused, stats,
                 continuations, wakes, events, inserted, kvars, ovars>>

NextQ ==
  \/ \E t \in JobTypes, p \in Priorities, m \in 1..MaxAttempts,
        d \in BOOLEAN : Add(t, p, m, d)
  \/ \E id \in JobIds : DelayExpire(id)
  \/ \E id \in JobIds : HandlerResolve(id)
  \/ \E id \in JobIds : HandlerReject(id)
  \/ \E id \in JobIds : JobTimeout(id)
  \/ Finally
  \/ \E id \in JobIds : RetryWake(id)
  \/ Pause
  \/ Resume
  \/ Clear


(***************************************************************************)
(* The measurement controller of gauge-segmented.js.                       *)
(***************************************************************************)
NoTimer == [state |-> "undef", kind |-> "detect"]
NoConfirm == [state |-> "undef", value |-> 0]
Quiet == [last |-> "init", emits |-> <<>>, writes |-> <<>>,
          teardown |-> FALSE, staleFire |-> FALSE, opened |-> FALSE,
          cancelled |-> FALSE, error |-> 0, sample |-> -1]

\* The controller's state as one value, with what the running callback has
\* emitted and written so far.
KState == [port |-> port, orphanPorts |-> orphanPorts, parser |-> parser,
           sampling |-> sampling, socketPath |-> socketPath, coef |-> coef,
           first |-> first, baseline |-> baseline, weightMax |-> weightMax,
           weightArray |-> weightArray,
           startTimeoutMeasurement |-> startTimeoutMeasurement,
           stopMeasurement |-> stopMeasurement,
           algorithmTimeout |-> algorithmTimeout,
           leakedDeadlines |-> leakedDeadlines,
           searchUsbInterval |-> searchUsbInterval,
           leakedPolls |-> leakedPolls,
           timeoutForStartSampling |-> timeoutForStartSampling,
           timeoutForCancelSamplingTimeout |-> timeoutForCancelSamplingTimeout,
           measurementTimeout |-> measurementTimeout,
           leakedSessions |-> leakedSessions, stopTimers |-> stopTimers,
           closeTimers |-> closeTimers, settleTimers |-> settleTimers,
           writeErrors |-> writeErrors, stale |-> stale,
           emits |-> <<>>, writes |-> <<>>, teardown |-> FALSE,
           opened |-> FALSE, cancelled |-> FALSE, error |-> 0,
           sample |-> -1]

\* The kinds of timer of which one is pending.
PendingKinds(s) ==
  {k \in {"deadline", "deadlineLeaked", "poll", "pollLeaked", "confirm",
          "cancel", "session", "sessionLeaked", "settle"} :
     \/ k = "deadline" /\ s.algorithmTimeout.state = "pending"
     \/ k = "deadlineLeaked"
          /\ s.leakedDeadlines.detect + s.leakedDeadlines.measure > 0
     \/ k = "poll" /\ s.searchUsbInterval = "active"
     \/ k = "pollLeaked" /\ s.leakedPolls > 0
     \/ k = "confirm" /\ s.timeoutForStartSampling.state = "pending"
     \/ k = "cancel" /\ s.timeoutForCancelSamplingTimeout = "pending"
     \/ k = "session" /\ s.measurementTimeout = "pending"
     \/ k = "sessionLeaked" /\ s.leakedSessions > 0
     \/ k = "settle" /\ s.settleTimers > 0}

\* clearTimeout / clearInterval of a handle: the variable keeps the handle
Cleared(state) == IF state \in {"pending", "active"}
                  THEN (IF state = "active" THEN "cleared" ELSE "destroyed")
                  ELSE state

\* the step s ends: the callback `name` has run
Step(s, name, wasStale) ==
  /\ s.orphanPorts <= MaxPending
  /\ s.settleTimers <= MaxPending
  /\ s.stopTimers <= MaxPending
  /\ s.closeTimers <= MaxPending
  /\ port' = s.port
  /\ orphanPorts' = s.orphanPorts
  /\ parser' = s.parser
  /\ sampling' = s.sampling
  /\ socketPath' = s.socketPath
  /\ coef' = s.coef
  /\ first' = s.first
  /\ baseline' = s.baseline
  /\ weightMax' = s.weightMax
  /\ weightArray' = s.weightArray
  /\ startTimeoutMeasurement' = s.startTimeoutMeasurement
  /\ stopMeasurement' = s.stopMeasurement
  /\ algorithmTimeout' = s.algorithmTimeout
  /\ leakedDeadlines' = s.leakedDeadlines
  /\ searchUsbInterval' = s.searchUsbInterval
  /\ leakedPolls' = s.leakedPolls
  /\ timeoutForStartSampling' = s.timeoutForStartSampling
  /\ timeoutForCancelSamplingTimeout' = s.timeoutForCancelSamplingTimeout
  /\ measurementTimeout' = s.measurementTimeout
  /\ leakedSessions' = s.leakedSessions
  /\ stopTimers' = s.stopTimers
  /\ closeTimers' = s.closeTimers
  /\ settleTimers' = s.settleTimers
  /\ writeErrors' = s.writeErrors
  /\ faults' = faults + (s.writeErrors - writeErrors)
                 + (IF name \in {"writeError", "pollError"} THEN 1 ELSE 0)
  /\ stale' = IF name \in {"measureStart", "measureSamplingOn"}
              THEN {} ELSE s.stale \cap PendingKinds(s)
  /\ out' = [last |-> name, emits |-> s.emits, writes |-> s.writes,
             teardown |-> s.teardown, staleFire |-> wasStale,
             opened |-> s.opened, cancelled |-> s.cancelled,
             error |-> s.error, sample |-> s.sample]

\* emitMessage(payload): to the display callback and to the outbound queue
EmitMessage(s, message) == [s EXCEPT !.emits = Append(@, message)]

\* sendCommand(command); fail: the write will report an error
SendCommand(s, command, fail) ==
  IF s.port = "undef" THEN s
  ELSE [s EXCEPT !.writes = Append(@, command),
                 !.writeErrors = IF fail THEN @ + 1 ELSE @,
                 !.sampling = IF fail THEN @
                              ELSE IF command = "SamplingOn" THEN TRUE
                              ELSE IF command \in {"SamplingOff", "DeviceOff"}
                              THEN FALSE ELSE @]

\* port && port.isOpen && port.close(); port = undefined
ClosePort(s) ==
  [s EXCEPT !.port = "undef",
            !.orphanPorts = IF s.port = "opening" THEN @ + 1 ELSE @,
            !.parser = FALSE,
            !.sampling = IF s.port = "open" THEN FALSE ELSE @]

\* the reset of the session fields in endAlgorithm
ResetSession(s) ==
  [s EXCEPT !.first = TRUE, !.stopMeasurement = FALSE,
            !.startTimeoutMeasurement = FALSE, !.weightArray = <<>>,
            !.baseline = 0]

\* endAlgorithm(error, errorMessage); error 0: called with no argument
EndAlgorithm(s, error, fail) ==
  LET s1 == [s EXCEPT !.algorithmTimeout.state = Cleared(@)]
      s2 == IF error # 0 /\ s1.port # "undef"
            THEN ClosePort(SendCommand(s1, "DeviceOff", fail))
            ELSE s1
      s3 == ResetSession(s2)
      s4 == SendCommand(s3, "SamplingOff", fail)
  IN [s4 EXCEPT !.teardown = TRUE, !.stale = PendingKinds(s4),
                !.error = error]

\* KGrip(socketPath), without the handlers it registers
KGrip(s, fail) ==
  IF s.port = "undef" THEN [s EXCEPT !.port = "opening"]
  ELSE IF s.port = "open"
  THEN [SendCommand(s, "DeviceOff", fail) EXCEPT !.closeTimers = @ + 1]
  ELSE s

\* the 'open' handler of a handle
OpenHandler(s, fail) ==
  [SendCommand(SendCommand(s, "SamplingOff", fail), "GetCoef", fail)
     EXCEPT !.settleTimers = @ + 1]

\* Weight = |baseline - value| * coef
Weight(s, value) ==
  (IF s.baseline >= value THEN s.baseline - value ELSE value - s.baseline)
    * s.coef

\* the baseline detection, were a confirm-timer set at every sample above the
\* threshold and a cancel-timer at every sample below it
DetectBaselineRestart(s, value) ==
  IF value > BaselineThreshold
  THEN [s EXCEPT !.timeoutForCancelSamplingTimeout = "undef",
                 !.timeoutForStartSampling =
                    [state |-> "pending", value |-> value]]
  ELSE IF value < BaselineThreshold
  THEN [s EXCEPT !.timeoutForCancelSamplingTimeout = "pending"]
  ELSE s

\* checkResponse, while first: the baseline detection
DetectBaseline(s, value) ==
  IF value > BaselineThreshold /\ s.timeoutForStartSampling.state # "pending"
  THEN [s EXCEPT !.timeoutForCancelSamplingTimeout = "undef",
                 !.timeoutForStartSampling =
                    [state |-> "pending", value |-> value]]
  ELSE IF value < BaselineThreshold
          /\ s.timeoutForCancelSamplingTimeout = "undef"
  THEN [s EXCEPT !.timeoutForCancelSamplingTimeout = "pending"]
  ELSE s

\* the start of the capture window with the deadline left to run
OpenWindowKeepDeadline(s) ==
  [s EXCEPT !.leakedSessions = IF s.measurementTimeout = "pending"
                               THEN @ + 1 ELSE @,
            !.stale = IF s.measurementTimeout = "pending"
                         /\ "session" \in s.stale
                      THEN (@ \ {"session"}) \cup {"sessionLeaked"} ELSE @,
            !.measurementTimeout = "pending",
            !.startTimeoutMeasurement = TRUE,
            !.opened = TRUE]

\* the start of the capture window: the deadline is cleared and the window
\* timer set
OpenWindow(s) ==
  [s EXCEPT !.algorithmTimeout.state = Cleared(@),
            !.cancelled = s.algorithmTimeout.state = "pending",
            !.leakedSessions = IF s.measurementTimeout = "pending"
                               THEN @ + 1 ELSE @,
            !.stale = IF s.measurementTimeout = "pending"
                         /\ "session" \in s.stale
                      THEN (@ \ {"session"}) \cup {"sessionLeaked"} ELSE @,
            !.measurementTimeout = "pending",
            !.startTimeoutMeasurement = TRUE,
            !.opened = TRUE]

\* checkResponse, once the baseline is set: the measurement
Measure(s, value) ==
  LET weight == Weight(s, value)
      s1 == IF ~s.startTimeoutMeasurement THEN OpenWindow(s) ELSE s
  IN IF weight > Trigger
     THEN IF weight < CeilWeight /\ ~s1.stopMeasurement
          THEN EmitMessage(
                 [s1 EXCEPT !.weightMax = IF weight > @ THEN weight ELSE @,
                            !.weightArray = Append(@, weight)],
                 "measure_received")
          ELSE s1
     ELSE s

CheckResponse(s, value) ==
  LET s1 == [s EXCEPT !.sample = value]
  IN IF s1.first THEN DetectBaseline(s1, value) ELSE Measure(s1, value)

\* the callback of the confirm-timer
ConfirmCallback(s) ==
  EmitMessage([s EXCEPT !.baseline = s.timeoutForStartSampling.value,
                        !.first = FALSE,
                        !.weightMax = 0],
              "baseline_ok")

\* the callback of the cancel-timer
CancelCallback(s) ==
  [EmitMessage(s, "baseline_stop")
     EXCEPT !.timeoutForStartSampling = NoConfirm]

\* the callback of the capture-window timer
SessionCallback(s, fail) ==
  EndAlgorithm(EmitMessage([s EXCEPT !.stopMeasurement = TRUE],
                           "measure_finish"),
               0, fail)

\* the callback of a deadline timer: of startDetectDevice ("detect") or of
\* startMeasure ("measure")
DeadlineCallback(s, kind, fail) ==
  IF kind = "detect"
  THEN LET s1 == [s EXCEPT !.searchUsbInterval = Cleared(@)]
       IN IF ~s1.socketPath
          THEN EndAlgorithm(s1, 2, fail)
          ELSE EndAlgorithm(EmitMessage(s1, "timeout"), 6, fail)
  ELSE EndAlgorithm(EmitMessage(s, "timeout"), 6, fail)

\* a new deadline timer replaces the handle held
SetDeadline(s, kind) ==
  [s EXCEPT !.leakedDeadlines =
              IF s.algorithmTimeout.state = "pending"
              THEN [@ EXCEPT ![s.algorithmTimeout.kind] = @ + 1] ELSE @,
            !.algorithmTimeout = [state |-> "pending", kind |-> kind]]

\* startDetectDevice(cb)
StartDetectDevice(s, fail) ==
  LET s1 == SetDeadline(s, "detect")
  IN IF s1.port = "undef"
     THEN [s1 EXCEPT !.leakedPolls = IF s1.searchUsbInterval = "active"
                                     THEN @ + 1 ELSE @,
                     !.searchUsbInterval = "active"]
     ELSE IF s1.port = "open"
     THEN KGrip(EmitMessage(s1, "device_found"), fail)
     ELSE s1

\* startMeasure(cb)
StartMeasure(s, fail) ==
  SendCommand(EmitMessage(SetDeadline(s, "measure"), "measureSamplingOn"),
              "SamplingOn", fail)

\* stopMeasure()
StopMeasure(s) ==
  LET s1 == [s EXCEPT !.algorithmTimeout.state = Cleared(@),
                      !.timeoutForStartSampling.state = Cleared(@),
                      !.timeoutForCancelSamplingTimeout = Cleared(@),
                      !.measurementTimeout = Cleared(@),
                      !.searchUsbInterval = Cleared(@)]
      s2 == IF s1.port # "undef"
            THEN [s1 EXCEPT !.stopTimers = @ + 1] ELSE s1
  IN [s2 EXCEPT !.teardown = TRUE, !.stale = PendingKinds(s2)]

\* the callback of an enumeration poll, by what SerialPort.list() gives
PollCallback(s, result, fail) ==
  IF result = "found"
  THEN KGrip(EmitMessage([s EXCEPT !.socketPath = TRUE,
                                   !.searchUsbInterval = Cleared(@)],
                         "device_found"),
             fail)
  ELSE IF result = "error" THEN EndAlgorithm(s, 5, fail)
  ELSE s

(***************************************************************************)
(* The initial state of the controller: the module's definitions.          *)
(***************************************************************************)
InitK ==
  /\ port = "undef"
  /\ orphanPorts = 0
  /\ parser = FALSE
  /\ sampling = FALSE
  /\ socketPath = FALSE
  /\ coef = 0
  /\ first = TRUE
  /\ baseline = 0
  /\ weightMax = 0
  /\ weightArray = <<>>
  /\ startTimeoutMeasurement = FALSE
  /\ stopMeasurement = FALSE
  /\ algorithmTimeout = NoTimer
  /\ leakedDeadlines = [detect |-> 0, measure |-> 0]
  /\ searchUsbInterval = "undef"
  /\ leakedPolls = 0
  /\ timeoutForStartSampling = NoConfirm
  /\ timeoutForCancelSamplingTimeout = "undef"
  /\ measurementTimeout = "undef"
  /\ leakedSessions = 0
  /\ stopTimers = 0
  /\ closeTimers = 0
  /\ settleTimers = 0
  /\ writeErrors = 0
  /\ cmds = 0
  /\ faults = 0
  /\ stale = {}
  /\ out = Quiet

(***************************************************************************)
(* The actions of the controller.  fail: the writes of the step report an  *)
(* error to their callback.                                                *)
(***************************************************************************)
MayFail(fail) == fail => faults < MaxFaults

\* listenZmq: measureStart
MeasureStart(fail) ==
  /\ gateway.listening
  /\ cmds < MaxCmds
  /\ MayFail(fail)
  /\ cmds' = cmds + 1
  /\ Step(StartDetectDevice(KState, fail), "measureStart", FALSE)
  /\ UNCHANGED <<qvars, ovars>>

\* listenZmq: measureSamplingOn
MeasureSamplingOn(fail) ==
  /\ gateway.listening
  /\ cmds < MaxCmds
  /\ MayFail(fail)
  /\ cmds' = cmds + 1
  /\ Step(StartMeasure(KState, fail), "measureSamplingOn", FALSE)
  /\ UNCHANGED <<qvars, ovars>>

\* listenZmq: measureStop, appHide (app_hide) and appShow (app_show)
StopCommand(cmd) ==
  /\ gateway.listening
  /\ cmds < MaxCmds
  /\ cmds' = cmds + 1
  /\ Step(EmitMessage(StopMeasure(KState),
                      IF cmd = "appShow" THEN "app_show" ELSE "app_hide"),
          cmd, FALSE)
  /\ UNCHANGED <<qvars, ovars>>

\* a tick of the enumeration interval held, and the answer of list()
Poll(result, fail) ==
  /\ searchUsbInterval = "active"
  /\ MayFail(fail \/ result = "error")
  /\ Step(PollCallback(KState, result, fail),
          IF result = "error" THEN "pollError" ELSE "poll",
          "poll" \in stale)
  /\ UNCHANGED <<qvars, ovars, cmds>>

\* a tick of an interval whose handle was overwritten
LeakedPoll(result, fail) ==
  /\ leakedPolls > 0
  /\ MayFail(fail \/ result = "error")
  /\ Step(PollCallback(KState, result, fail),
          IF result = "error" THEN "pollError" ELSE "poll",
          "pollLeaked" \in stale)
  /\ UNCHANGED <<qvars, ovars, cmds>>

\* the handle held opens
PortOpens(fail) ==
  /\ port = "opening"
  /\ MayFail(fail)
  /\ Step(OpenHandler([KState EXCEPT !.port = "open"], fail), "open", FALSE)
  /\ UNCHANGED <<qvars, ovars, cmds>>

\* a handle dropped while opening opens: its handler acts on the globals
OrphanOpens(fail) ==
  /\ orphanPorts > 0
  /\ MayFail(fail)
  /\ Step(OpenHandler([KState EXCEPT !.orphanPorts = @ - 1], fail),
          "open", FALSE)
  /\ UNCHANGED <<qvars, ovars, cmds>>

\* the config.samplingDelay timer of an 'open' handler; with no port,
\* port.pipe throws and the callback ends there
SettleFires(fail) ==
  /\ settleTimers > 0
  /\ MayFail(fail)
  /\ LET s == [KState EXCEPT !.settleTimers = @ - 1]
     IN Step(IF s.port = "undef" THEN s
             ELSE SendCommand([s EXCEPT !.parser = TRUE], "SamplingOn", fail),
             "settle", "settle" \in stale)
  /\ UNCHANGED <<qvars, ovars, cmds>>

\* the 'data' handler of the port: a chunk of 6 bytes arrives and is taken
\* for the coefficient
CoefResponse ==
  /\ port = "open"
  /\ Step([KState EXCEPT !.coef = 1], "coef", FALSE)
  /\ UNCHANGED <<qvars, ovars, cmds>>

\* the parser delivers a frame of 11 bytes
Frame(value) ==
  /\ port = "open" /\ parser /\ sampling
  /\ LET s == CheckResponse(KState, value)
     IN /\ Len(s.weightArray) <= MaxSamples
        /\ Step(s, "frame", FALSE)
  /\ UNCHANGED <<qvars, ovars, cmds>>

ConfirmFires ==
  /\ timeoutForStartSampling.state = "pending"
  /\ Step(ConfirmCallback(
            [KState EXCEPT !.timeoutForStartSampling.state = "destroyed"]),
          "confirm", "confirm" \in stale)
  /\ UNCHANGED <<qvars, ovars, cmds>>

CancelFires ==
  /\ timeoutForCancelSamplingTimeout = "pending"
  /\ Step(CancelCallback(
            [KState EXCEPT !.timeoutForCancelSamplingTimeout = "destroyed",
                           !.timeoutForStartSampling.state = Cleared(@)]),
          "cancel", "cancel" \in stale)
  /\ UNCHANGED <<qvars, ovars, cmds>>

SessionEnds(fail) ==
  /\ measurementTimeout = "pending"
  /\ MayFail(fail)
  /\ Step(SessionCallback([KState EXCEPT !.measurementTimeout = "destroyed"],
                          fail),
          "session", "session" \in stale)
  /\ UNCHANGED <<qvars, ovars, cmds>>

LeakedSessionEnds(fail) ==
  /\ leakedSessions > 0
  /\ MayFail(fail)
  /\ Step(SessionCallback([KState EXCEPT !.leakedSessions = @ - 1], fail),
          "session", "sessionLeaked" \in stale)
  /\ UNCHANGED <<qvars, ovars, cmds>>

DeadlineFires(fail) ==
  /\ algorithmTimeout.state = "pending"
  /\ MayFail(fail)
  /\ Step(DeadlineCallback(
            [KState EXCEPT !.algorithmTimeout.state = "destroyed"],
            algorithmTimeout.kind, fail),
          "deadline", "deadline" \in stale)
  /\ UNCHANGED <<qvars, ovars, cmds>>

LeakedDeadlineFires(kind, fail) ==
  /\ leakedDeadlines[kind] > 0
  /\ MayFail(fail)
  /\ Step(DeadlineCallback([KState EXCEPT !.leakedDeadlines[kind] = @ - 1],
                           kind, fail),
          "deadline", "deadlineLeaked" \in stale)
  /\ UNCHANGED <<qvars, ovars, cmds>>

\* the 500 ms timer of stopMeasure
StopTimerFires(fail) ==
  /\ stopTimers > 0
  /\ MayFail(fail)
  /\ LET s == [KState EXCEPT !.stopTimers = @ - 1]
     IN Step(IF s.port = "undef" THEN s
             ELSE [SendCommand(s, "DeviceOff", fail)
                     EXCEPT !.closeTimers = @ + 1],
             "stopTimer", FALSE)
  /\ UNCHANGED <<qvars, ovars, cmds>>

\* a 200 ms close timer, of stopMeasure or of KGrip
CloseTimerFires ==
  /\ closeTimers > 0
  /\ Step(ClosePort([KState EXCEPT !.closeTimers = @ - 1]), "closeTimer",
          FALSE)
  /\ UNCHANGED <<qvars, ovars, cmds>>

\* the callback of a write that failed: endAlgorithm(3)
WriteError ==
  /\ writeErrors > 0
  /\ Step(EndAlgorithm([KState EXCEPT !.writeErrors = @ - 1], 3, FALSE),
          "writeError", FALSE)
  /\ UNCHANGED <<qvars, ovars, cmds>>

NextK ==
  \/ \E fail \in BOOLEAN : MeasureStart(fail)
  \/ \E fail \in BOOLEAN : MeasureSamplingOn(fail)
  \/ \E cmd \in {"measureStop", "appHide", "appShow"} : StopCommand(cmd)
  \/ \E r \in {"found", "none", "error"}, fail \in BOOLEAN : Poll(r, fail)
  \/ \E r \in {"found", "none", "error"}, fail \in BOOLEAN :
       LeakedPoll(r, fail)
  \/ \E fail \in BOOLEAN : PortOpens(fail)
  \/ \E fail \in BOOLEAN : OrphanOpens(fail)
  \/ \E fail \in BOOLEAN : SettleFires(fail)
  \/ CoefResponse
  \/ \E v \in Values : Frame(v)
  \/ ConfirmFires
  \/ CancelFires
  \/ \E fail \in BOOLEAN : SessionEnds(fail)
  \/ \E fail \in BOOLEAN : LeakedSessionEnds(fail)
  \/ \E fail \in BOOLEAN : DeadlineFires(fail)
  \/ \E k \in {"detect", "measure"}, fail \in BOOLEAN :
       LeakedDeadlineFires(k, fail)
  \/ \E fail \in BOOLEAN : StopTimerFires(fail)
  \/ CloseTimerFires
  \/ WriteError

\* status messages of the controller, as payloads of emitMessage
Payloads == {"device_found", "timeout"}

InitO ==
  /\ callback = FALSE
  /\ data = [j \in JobIds |-> "none"]
  /\ sends = [j \in JobIds |-> "none"]
  /\ display = <<>>
  /\ wire = <<>>
  /\ gateway = [listening |-> TRUE, logged |-> 0, unread |-> 0]

QueueInit == InitQ /\ InitK /\ InitO

QueueSpec == QueueInit /\ [][NextQ]_vars

\* the controller's queue: new JobQueue({ concurrency: 1, ... })
ControllerInit == InitQ /\ concurrency = 1 /\ InitK /\ InitO

ControllerSpec == ControllerInit /\ [][NextK]_vars

(***************************************************************************)
(* Properties of the queue.                                                *)
(***************************************************************************)
Queued == {jobs[i] : i \in 1..Len(jobs)}

Processing == {j \in JobIds : job[j].status = "processing"}

\* a job with a registered handler has been dispatched: each dispatch of
\* such a job invokes the handler and counts one attempt
Dispatched(j) == job[j].attempts > 0

(* C1: in every reachable state the number of jobs with status             *)
(* 'processing', and the running counter, are at most the concurrency.     *)
ConcurrencyRespected ==
  /\ running <= concurrency
  /\ Cardinality(Processing) <= concurrency

\* the limit is reached and keeps a Pending job of an unpaused queue waiting
ConcurrencyReached ==
  /\ Cardinality(Processing) = concurrency
  /\ running = concurrency
  /\ ~paused
  /\ FirstPending(QState) # 0

(* C3: after its k-th attempt failed with k < maxAttempts, a job is not    *)
(* dispatched again before the backoff delay retryDelay * 2^(k-1) has      *)
(* elapsed: while the job runs its attempt k+1, the retry timer set with   *)
(* that delay at the k-th failure has fired.                               *)
RetryWaitsForBackoff ==
  \A j \in JobIds :
    (job[j].status = "processing" /\ job[j].attempts >= 2)
      => \A i \in 1..Len(wakes[j]) :
           wakes[j][i] # RetryDelay * Pow2(job[j].attempts - 2)

(* C8, as claimed: of two jobs added back to back to an idle, unpaused     *)
(* queue with a registered handler, the first of priority 1 and the second *)
(* of priority 5, the second is dispatched before the first: the first is  *)
(* never found dispatched while the second is not.                         *)
HigherPriorityDispatchedFirst ==
  (b2b.second # 0 /\ Dispatched(b2b.first)) => Dispatched(b2b.second)

(* C8, amended: of two such jobs the first is dispatched first: its own    *)
(* add dispatches it, before the second add runs, and the second is        *)
(* dispatched only after it.                                               *)
FirstAddedDispatchedFirst ==
  /\ b2b.first # 0 => Dispatched(b2b.first)
  /\ b2b.second # 0 => job[b2b.first].priority < job[b2b.second].priority

\* the second add has run: the job of priority 1 was dispatched and the
\* job of priority 5 waits behind it
BackToBackAdded ==
  /\ b2b.second # 0
  /\ job[b2b.first].priority = 1
  /\ job[b2b.second].priority = 5
  /\ Dispatched(b2b.first)
  /\ job[b2b.second].status = "pending"
  /\ ~Dispatched(b2b.second)

\* job x is ahead of job y: higher priority, or the same and inserted first
Ahead(x, y) ==
  \/ job[x].priority > job[y].priority
  \/ job[x].priority = job[y].priority /\ inserted[x] < inserted[y]

QueueSorted ==
  \A i, k \in 1..Len(jobs) : i < k => Ahead(jobs[i], jobs[k])

\* this step dispatches job x
Dispatches(x) ==
  \/ job'[x].attempts > job[x].attempts
  \/ /\ job[x].type \notin handlers
     /\ job[x].status \in {"none", "delayed", "pending"}
     /\ job'[x].status = "failed"

\* the job a step dispatches is ahead of every job the step leaves Pending
DispatchesBest ==
  \A x \in JobIds :
    Dispatches(x) =>
      \A i \in 1..Len(jobs') :
        job'[jobs'[i]].status = "pending" /\ jobs'[i] # x
          => (\/ job'[x].priority > job'[jobs'[i]].priority
              \/ /\ job'[x].priority = job'[jobs'[i]].priority
                 /\ inserted'[x] < inserted'[jobs'[i]])

(* C9: the queue list is always sorted by non-increasing priority, in      *)
(* insertion order among equal priorities, and every dispatch takes the    *)
(* Pending job of the list that is ahead of all others.                    *)
PriorityThenFifo == []QueueSorted /\ [][DispatchesBest]_vars

\* two Pending jobs of equal priority are queued in insertion order, which
\* is not the order of their add calls: the first was added with a delay
\* after the second one
TieQueuedByInsertion ==
  /\ Len(jobs) = 2
  /\ job[jobs[1]].status = "pending" /\ job[jobs[2]].status = "pending"
  /\ job[jobs[1]].priority = job[jobs[2]].priority
  /\ jobs[1] > jobs[2]

\* an unpaused queue does not leave a queued Pending job waiting while
\* nothing runs: the retries of a job are made without any further call
NoStall == (~paused /\ FirstPending(QState) # 0) => running > 0

(* C10: the handler of a job is invoked at most maxAttempts times, and a   *)
(* job with a handler that ends Failed has had exactly maxAttempts         *)
(* invocations, maxAttempts - 1 job:retry events and one job:failed event, *)
(* and is no longer in the queue; until then an unpaused queue never       *)
(* leaves it waiting with nothing running.                                 *)
AttemptsBounded ==
  /\ NoStall
  /\ \A j \in JobIds :
       /\ job[j].attempts <= job[j].maxAttempts
       /\ events[j].failed <= 1
       /\ events[j].retry <= job[j].maxAttempts - 1
       /\ (job[j].status = "failed" /\ job[j].type \in handlers)
            => /\ job[j].attempts = job[j].maxAttempts
               /\ events[j].retry = job[j].maxAttempts - 1
               /\ events[j].failed = 1
               /\ events[j].completed = 0
               /\ j \notin Queued

\* a job of three attempts has failed for good
FailedAfterThreeAttempts ==
  \E j \in JobIds :
    /\ job[j].status = "failed"
    /\ job[j].maxAttempts = 3
    /\ job[j].attempts = 3
    /\ events[j].retry = 2

\* getStats(): the live counts
GetStats(s) ==
  [pending |-> Cardinality({i \in 1..Len(s.jobs) :
                              s.job[s.jobs[i]].status = "pending"}),
   processing |-> s.running,
   delayed |-> Cardinality({i \in 1..Len(s.jobs) :
                              s.job[s.jobs[i]].status = "delayed"}),
   total |-> Len(s.jobs)]

\* C23: getStats() reports as delayed the number of jobs added with a delay
\* that has not elapsed yet.
StatsCountDelayed ==
  GetStats(QState).delayed
    = Cardinality({j \in JobIds : job[j].status = "delayed"})

(* C22: a job whose type has no registered handler is accepted by add; its  *)
(* dispatch makes it failed at once, with one job:failed event, no attempt *)
(* counted, no job:retry and no retry timer whatever its maxAttempts, and  *)
(* removes it from the queue; the queue is not left stalled by it.         *)
NoHandlerFailsPermanently ==
  /\ NoStall
  /\ \A j \in Created :
       job[j].type \notin handlers
         => /\ job[j].status \in {"delayed", "pending", "failed"}
            /\ job[j].attempts = 0
            /\ events[j].retry = 0
            /\ events[j].completed = 0
            /\ wakes[j] = <<>>
            /\ events[j].failed = IF job[j].status = "failed" THEN 1 ELSE 0
            /\ job[j].status = "failed" => j \notin Queued

\* a job without handler and with maxAttempts 3 has failed, and a job added
\* after it has been dispatched
NoHandlerFailedOthersRun ==
  \E j, k \in Created :
    /\ job[j].type \notin handlers
    /\ job[j].maxAttempts = 3
    /\ job[j].status = "failed"
    /\ j < k
    /\ Dispatched(k)

(***************************************************************************)
(* The controller's outbound queue: new JobQueue({ concurrency: 1,         *)
(* retryDelay: 0, timeout: 1 }) with the handler of 'zeromqSendMessage',   *)
(* fed by emitMessage.  The handler calls dealer.send and awaits a promise *)
(* that the success of the send never resolves (its callback returns the   *)
(* function resolve without calling it) and that the failure of the send   *)
(* rejects.                                                                *)
(***************************************************************************)
OutboundInit ==
  /\ concurrency = 1
  /\ handlers = {"zeromqSendMessage"}
  /\ jobs = <<>>
  /\ job = [j \in JobIds |-> NoJob]
  /\ running = 0
  /\ paused = FALSE
  /\ stats = [completed |-> 0, failed |-> 0, retried |-> 0]
  /\ continuations = 0
  /\ wakes = [j \in JobIds |-> <<>>]
  /\ events = [j \in JobIds |-> [retry |-> 0, failed |-> 0, completed |-> 0]]
  /\ inserted = [j \in JobIds |-> 0]
  /\ b2b = NoPair
  /\ InitK
  /\ InitO

\* the jobs of which the step started an attempt: their handler runs and
\* calls dealer.send(data.message)
Started(s) == {j \in JobIds : s.job[j].attempts > job[j].attempts}

StartSends(s) ==
  [j \in JobIds |-> IF j \in Started(s) THEN "inflight" ELSE sends[j]]

RECURSIVE Sent(_, _)
Sent(started, d) ==
  IF started = {} THEN <<>>
  ELSE LET j == Min(started) IN <<d[j]>> \o Sent(started \ {j}, d)

\* a step of the outbound queue ends
OutboundStep(s, d) ==
  /\ SetQState(s)
  /\ data' = d
  /\ sends' = StartSends(s)
  /\ wire' = wire \o Sent(Started(s), d)
  /\ UNCHANGED <<concurrency, handlers, b2b, kvars>>

\* registerCallback(cb)
RegisterCallback ==
  /\ ~callback
  /\ callback' = TRUE
  /\ UNCHANGED <<qvars, kvars, data, sends, display, wire, gateway>>

\* emitMessage(payload): callback(payload) if one is registered, then
\* zeromqSendMessage(msg): queue.add('zeromqSendMessage', { message: msg })
\* with the default options
SendMessage(payload) ==
  /\ Cardinality(Created) < MaxMessages
  /\ LET id == Cardinality(Created) + 1
         jb == [status |-> "pending", type |-> "zeromqSendMessage",
                priority |-> 0, attempts |-> 0, maxAttempts |-> 1]
     IN OutboundStep(Process(InsertJob([QState EXCEPT !.job[id] = jb], id)),
                     [data EXCEPT ![id] = payload])
  /\ display' = IF callback THEN Append(display, payload) ELSE display
  /\ UNCHANGED <<callback, gateway>>

\* dealer.send fulfils: .then(() => { log(...); return resolve }) returns
\* the function resolve without calling it, and the promise the handler
\* awaits stays pending
SendSucceeds(id) ==
  /\ sends[id] = "inflight"
  /\ sends' = [sends EXCEPT ![id] = "sent"]
  /\ UNCHANGED <<qvars, kvars, callback, data, display, wire, gateway>>

\* dealer.send rejects: .catch(reject); the handler rejects, which settles
\* the race unless the timeout has settled it
SendFails(id) ==
  /\ sends[id] = "inflight"
  /\ IF job[id].status = "processing"
     THEN SetQState(ExecuteFailure(QState, id))
     ELSE UNCHANGED <<jobs, job, running, paused, stats, continuations,
                      wakes, events, inserted>>
  /\ sends' = [sends EXCEPT ![id] = "failed"]
  /\ UNCHANGED <<concurrency, handlers, b2b, kvars, callback, data, display,
                 wire, gateway>>

\* the 1 ms timeout of the attempt in progress rejects the race
SendTimeout(id) ==
  /\ job[id].status = "processing"
  /\ continuations = 0
  /\ OutboundStep(ExecuteFailure(QState, id), data)
  /\ UNCHANGED <<callback, display, gateway>>

\* a suspended _process resumes in its finally block
SendFinally ==
  /\ continuations > 0
  /\ OutboundStep(ProcessFinally(QState), data)
  /\ UNCHANGED <<callback, display, gateway>>

\* listenZmq receives showGauge or hideGauge: emitMessage of show_gauge or
\* hide_gauge
InboundCommand(cmd) ==
  /\ gateway.listening
  /\ SendMessage(IF cmd = "showGauge" THEN "show_gauge" ELSE "hide_gauge")

\* listenZmq receives a message that is JSON but has no inputData or no
\* inputData.cmd: `return` leaves the for await loop and ends listenZmq
InboundWithoutCommand ==
  /\ gateway.listening
  /\ gateway' = [gateway EXCEPT !.listening = FALSE]
  /\ UNCHANGED <<qvars, kvars, callback, data, sends, display, wire>>

\* listenZmq receives a message that is no JSON: JSON.parse throws, the catch
\* logs it and the loop goes on
InboundInvalid ==
  /\ gateway.listening
  /\ gateway.logged < MaxCmds
  /\ gateway' = [gateway EXCEPT !.logged = @ + 1]
  /\ UNCHANGED <<qvars, kvars, callback, data, sends, display, wire>>

\* a command arrives at the dealer socket after listenZmq has ended: no
\* loop reads it
InboundUnread ==
  /\ ~gateway.listening
  /\ gateway.unread < MaxCmds
  /\ gateway' = [gateway EXCEPT !.unread = @ + 1]
  /\ UNCHANGED <<qvars, kvars, callback, data, sends, display, wire>>

NextO ==
  \/ RegisterCallback
  \/ \E payload \in Payloads : SendMessage(payload)
  \/ \E id \in JobIds : SendSucceeds(id)
  \/ \E id \in JobIds : SendFails(id)
  \/ \E id \in JobIds : SendTimeout(id)
  \/ SendFinally
  \/ \E cmd \in {"showGauge", "hideGauge"} : InboundCommand(cmd)
  \/ InboundWithoutCommand
  \/ InboundInvalid
  \/ InboundUnread

OutboundSpec == OutboundInit /\ [][NextO]_vars

(***************************************************************************)
(* Properties of the controller.                                           *)
(***************************************************************************)
Above == {v \in Values : v > BaselineThreshold}

\* C2: during baseline detection, a sample above the threshold that arrives
\* while the cancel-timer is pending cancels that cancel-timer, whether or
\* not a confirm-timer is pending.
AboveSampleCancelsDrop ==
  [][(/\ first
      /\ timeoutForCancelSamplingTimeout = "pending"
      /\ \E v \in Above : Frame(v))
     => timeoutForCancelSamplingTimeout' # "pending"]_vars

\* C4: a step in which teardown runs (endAlgorithm or stopMeasure) emits
\* exactly one status message.
TeardownEmitsOneStatus == out.teardown => Len(out.emits) = 1

\* C5: a timer that was pending when teardown ran, firing before the next
\* measureStart or measureSamplingOn, emits no message and writes no command.
StaleTimerHasNoEffect ==
  out.staleFire => out.emits = <<>> /\ out.writes = <<>>

\* C6: after a step in which teardown runs, the session fields are reset.
TeardownResetsSession ==
  (out.teardown /\ out.last # "appShow")
               => /\ first
                  /\ baseline = 0
                  /\ weightArray = <<>>
                  /\ ~startTimeoutMeasurement
                  /\ ~stopMeasurement

\* C7, as stated: the step that emits baseline_ok leaves no deadline timer
\* pending in algorithmTimeout.
DeadlineCancelledAtBaselineOk ==
  out.last = "confirm" => algorithmTimeout.state # "pending"

\* C7, amended: the deadline timer held in algorithmTimeout is cancelled by
\* the step that opens the capture window, and the step that emits
\* baseline_ok leaves it as it is.
DeadlineCancelledAtWindowStart ==
  /\ [](out.opened => algorithmTimeout.state # "pending")
  /\ [][ConfirmFires => algorithmTimeout' = algorithmTimeout]_vars

\* the window opened after baseline_ok, and its step cleared a deadline
\* that was pending
WindowOpenedUnderDeadline ==
  /\ out.opened /\ out.cancelled
  /\ ~first
  /\ algorithmTimeout.state = "destroyed"
  /\ measurementTimeout = "pending"

(***************************************************************************)
(* Properties of the outbound queue.                                       *)
(***************************************************************************)
InFlight == {j \in JobIds : sends[j] = "inflight"}

\* C11: with the controller's queue (concurrency 1) at most one dealer.send
\* is in flight: no handler is started while a send started before has not
\* settled.
OneSendInFlight == Cardinality(InFlight) <= 1

\* C12: a job of the controller's queue whose dealer.send succeeded never
\* ends as failed.
SentJobNeverFails ==
  \A j \in JobIds : sends[j] = "sent" => job[j].status # "failed"

(***************************************************************************)
(* Properties of the controller: the port and the timers of a cycle.       *)
(***************************************************************************)
\* C13: at most one write to the instrument is in flight.  The completion
\* callback of port.write runs in a later turn of the event loop, so a
\* callback that writes two commands issues the second one while the first
\* is outstanding: no step writes more than one command.
OneWriteInFlight == Len(out.writes) <= 1

\* C14: the controller never drops its reference to a port handle without
\* closing that handle: no handle is left to open on its own.
NoHandleDropped == orphanPorts = 0

\* C15: at most one deadline timer and at most one enumeration interval are
\* scheduled: none runs on beside the one whose handle the controller holds.
OneCycleLive ==
  /\ leakedDeadlines.detect + leakedDeadlines.measure = 0
  /\ leakedPolls = 0

(***************************************************************************)
(* Properties of the controller: the capture window and teardown.          *)
(***************************************************************************)
\* the capture window is open: its timer runs
WindowOpen ==
  /\ ~first
  /\ startTimeoutMeasurement /\ ~stopMeasurement
  /\ measurementTimeout = "pending"

EmittedIn(o, message) == \E i \in 1..Len(o.emits) : o.emits[i] = message

\* C16: while the capture window is open, a frame whose weight is below
\* ceilWeight, above the trigger or not, is appended to weightArray and
\* emits one measure_received.
BelowCeilingAppended ==
  [][\A v \in Values :
       (WindowOpen /\ Weight(KState, v) < CeilWeight /\ Frame(v))
       => /\ weightArray' = Append(weightArray, Weight(KState, v))
          /\ out'.emits = <<"measure_received">>]_vars

\* C17: when the window timer fires with weightArray empty, no
\* measure_finish is emitted.
NoFinishWithoutData ==
  [][(weightArray = <<>> /\ \E fail \in BOOLEAN : SessionEnds(fail))
     => ~EmittedIn(out', "measure_finish")]_vars

\* C18: the step of the window timer, which emits measure_finish, ends with
\* the port handle closed and released.
FinishReleasesPort == out.last = "session" => port = "undef"

\* C19: a step in which teardown runs while a port handle is held (an error,
\* the deadline, the end of the window, measureStop or appHide) writes
\* SamplingOff and then DeviceOff, and releases the handle.
TeardownWritesOffThenReleases ==
  [][(port # "undef" /\ out'.teardown /\ out'.last # "appShow")
     => /\ out'.writes = <<"SamplingOff", "DeviceOff">>
        /\ port' = "undef"]_vars

\* C20: a measureStart received while an open port handle is held leaves no
\* deadline timer running.
StartWithPortHeldRejected ==
  [][(port = "open" /\ \E fail \in BOOLEAN : MeasureStart(fail))
     => algorithmTimeout'.state # "pending"]_vars

(***************************************************************************)
(* Properties of the controller: resuming, poll failures, teardown twice.  *)
(***************************************************************************)
\* C21: after a measureSamplingOn received with the port open and a capture
\* window over, the frames are routed to the measurement: first is false.
ResumeSkipsBaseline ==
  (/\ out.last = "measureSamplingOn"
   /\ port = "open"
   /\ measurementTimeout = "destroyed")
    => ~first

\* C24: a failed enumeration poll leaves the deadline in force.
PollFailureKeepsDeadline ==
  [][(/\ algorithmTimeout.state = "pending"
      /\ \E fail \in BOOLEAN : Poll("error", fail))
     => algorithmTimeout'.state = "pending"]_vars

\* the port and the session fields
SessionFields ==
  <<port, first, baseline, weightArray, startTimeoutMeasurement,
    stopMeasurement>>

\* C25: a teardown that runs right after a teardown by endAlgorithm with an
\* error, with no port, changes neither the port nor the session fields,
\* writes no command and records no error message.
TeardownIdempotent ==
  [][(out.teardown /\ out.error # 0 /\ port = "undef" /\ out'.teardown)
     => /\ SessionFields' = SessionFields
        /\ out'.writes = <<>>
        /\ out'.error = 0]_vars

\* the payloads passed to emitMessage, in order: one job is added per call
Emitted == [i \in 1..Cardinality(Created) |-> data[i]]

\* C26: the sends of the outbound queue are started in the order in which the
\* messages were emitted, one per message, and the display callback has
\* received, once each and in order, the messages emitted since it was
\* registered.
FanOutInOrder ==
  /\ Len(wire) <= Len(Emitted)
  /\ wire = SubSeq(Emitted, 1, Len(wire))
  /\ Len(display) <= Len(Emitted)
  /\ display = SubSeq(Emitted, Len(Emitted) - Len(display) + 1, Len(Emitted))
  /\ \A j \in Created : Cardinality({i \in 1..Len(jobs) : jobs[i] = j}) <= 1

\* three messages were emitted, the last two with a callback registered, and
\* their sends were started
FannedOutThree ==
  /\ Len(wire) = 3
  /\ wire[1] # wire[2]
  /\ Len(display) = 2

CancelFireRestartsDetection ==
  out.last = "cancel" =>
    /\ timeoutForStartSampling = NoConfirm
    /\ out.emits = <<"baseline_stop">>
    /\ \A above \in {v \in Values : v > BaselineThreshold} :
         LET s1 == CheckResponse(KState, above)
         IN /\ s1.timeoutForStartSampling
                 = [state |-> "pending", value |-> above]
            /\ \A below \in {v \in Values : v < BaselineThreshold} :
                 CheckResponse(s1, below).timeoutForCancelSamplingTimeout
                   = "pending"

\* the jobs of this.jobs that wait for a dispatch
PendingJobs == {j \in JobIds : job[j].status = "pending"
                                /\ \E i \in 1..Len(jobs) : jobs[i] = j}

\* C29: a call of _process on a queue that is not paused dispatches until
\* `concurrency` jobs run or no job is pending: after resume() with k pending
\* jobs and none running, min(k, concurrency) jobs run.
ResumeFillsConcurrency ==
  [][(Resume /\ running = 0 /\ continuations = 0)
     => running' = Min({Cardinality(PendingJobs), concurrency})]_vars

\* C30: teardown clears the coefficient, so that a later session computes no
\* weight with the value read in the session before.
TeardownClearsCoefficient == out.teardown => coef = 0

\* C31: a message that is JSON but has no inputData or no inputData.cmd does
\* not stop the gateway: listenZmq goes on, and no command that arrives
\* afterwards is left unread.
MalformedMessageIgnored ==
  /\ gateway.listening
  /\ gateway.unread = 0

(***************************************************************************)
(* The queue with its scheduling: timers fire and suspended calls resume;  *)
(* a paused queue is resumed; clear() is never called.  No handler has to   *)
(* settle.                                                                 *)
(***************************************************************************)
NextLive ==
  \/ \E t \in JobTypes, m \in 1..MaxAttempts, d \in BOOLEAN :
       Add(t, Min(Priorities), m, d)
  \/ \E id \in JobIds : DelayExpire(id)
  \/ \E id \in JobIds : HandlerResolve(id)
  \/ \E id \in JobIds : HandlerReject(id)
  \/ \E id \in JobIds : JobTimeout(id)
  \/ Finally
  \/ \E id \in JobIds : RetryWake(id)
  \/ Pause
  \/ Resume

\* a timer of the queue fires, or a suspended _process resumes
Progress ==
  \/ Finally
  \/ \E id \in JobIds : DelayExpire(id) \/ JobTimeout(id) \/ RetryWake(id)

Scheduling == WF_vars(Progress) /\ WF_vars(Resume)

QueueLiveSpec == QueueInit /\ [][NextLive]_vars /\ Scheduling

Terminal == {j \in JobIds : job[j].status \in {"completed", "failed"}}

RECURSIVE Retries(_)
Retries(S) ==
  IF S = {} THEN 0
  ELSE LET j == Min(S) IN events[j].retry + Retries(S \ {j})

\* C33: a job has at most one terminal outcome: one job:completed or one
\* job:failed, the one of its status, and none before it is terminal; a
\* terminal job is not in the queue and is never dispatched again;
\* stats.completed + stats.failed is the number of terminal jobs and
\* stats.retried the number of job:retry events.
OneTerminalOutcome ==
  /\ [](/\ \A j \in JobIds :
            /\ events[j].completed = IF job[j].status = "completed"
                                     THEN 1 ELSE 0
            /\ events[j].failed = IF job[j].status = "failed" THEN 1 ELSE 0
            /\ j \in Terminal => j \notin Queued
        /\ stats.completed + stats.failed = Cardinality(Terminal)
        /\ stats.retried = Retries(JobIds))
  /\ [][\A j \in Terminal : job'[j] = job[j]]_vars

\* one job has ended completed after a retry, another one failed after an
\* attempt
BothOutcomes ==
  /\ \E j \in JobIds : job[j].status = "completed" /\ events[j].retry > 0
  /\ \E j \in JobIds : job[j].status = "failed" /\ job[j].attempts > 0

====
